---------------------------- MODULE Spec2Model ----------------------------
(***************************************************************************)
(* A model of the two agent-callable tools of the repository:              *)
(*   - TextFileInfoProvider (coded_tools/text_file_info_provider.py), the  *)
(*     retrieval tool: construction builds the default index, async_invoke *)
(*     answers a query from the default index or from a per-call index of  *)
(*     a custom file;                                                      *)
(*   - McpQuoteGenerator (coded_tools/mcp_quote_generator.py), the quote   *)
(*     bridge: async_invoke validates, opens an RPC client, sends one      *)
(*     quote request;                                                      *)
(*   - test_mcp_quote_client (mcp_quote_client_example.py), the stand-alone*)
(*     client of the same server.                                          *)
(* Python str values are TLA+ strings (TLC evaluates Len, \o and SubSeq on *)
(* them), so lengths, slices and substring tests are those of the code.    *)
(***************************************************************************)
EXTENDS Integers, Sequences, FiniteSets, TLC

VARIABLES
    phase,          \* the retrieval tool's construction: "new", "ready", "raised"
    vector_store,   \* self.vector_store: NoStore or the default index
    init_log,       \* what _initialize_vector_store logged
    tasks,          \* one record per coroutine slot: a tool invocation in flight
    probe           \* the argument/result record of a helper applied on its own

vars == <<phase, vector_store, init_log, tasks, probe>>

---------------------------------------------------------------------------
(* Bounds of the model. *)

\* chunks the splitter produces from a file, at most
MaxChunks == 2
\* ranked results handed to _format_rag_results on its own, at most
MaxResults == 2
\* coroutine slots of the interleaving specification
NumTasks == 2

---------------------------------------------------------------------------
(* Python str operations. *)

Min(a, b) == IF a < b THEN a ELSE b
Max(a, b) == IF a > b THEN a ELSE b

\* s[i-1:i], the i-th character (1-based)
Char(s, i) == SubSeq(s, i, i)

\* `t in s` for two str values
Contains(s, t) ==
    \E i \in 1..(Len(s) - Len(t) + 1) : SubSeq(s, i, i + Len(t) - 1) = t

\* s[:n], n of either sign
SliceTo(s, n) ==
    IF n >= 0 THEN SubSeq(s, 1, Min(n, Len(s)))
    ELSE SubSeq(s, 1, Max(0, Len(s) + n))

UpperAlphabet == "ABCDEFGHIJKLMNOPQRSTUVWXYZ"
LowerAlphabet == "abcdefghijklmnopqrstuvwxyz"

LowerChar(c) ==
    IF \E i \in 1..Len(UpperAlphabet) : Char(UpperAlphabet, i) = c
    THEN Char(LowerAlphabet, CHOOSE i \in 1..Len(UpperAlphabet) : Char(UpperAlphabet, i) = c)
    ELSE c

\* s.lower()
RECURSIVE Lower(_)
Lower(s) ==
    IF s = "" THEN "" ELSE LowerChar(Char(s, 1)) \o Lower(SubSeq(s, 2, Len(s)))

IsSpace(c) == c \in {" ", "\n", "\t", "\r"}

RECURSIVE LStrip(_)
LStrip(s) ==
    IF s # "" /\ IsSpace(Char(s, 1)) THEN LStrip(SubSeq(s, 2, Len(s))) ELSE s

RECURSIVE RStrip(_)
RStrip(s) ==
    IF s # "" /\ IsSpace(Char(s, Len(s))) THEN RStrip(SubSeq(s, 1, Len(s) - 1)) ELSE s

\* s.strip()
Strip(s) == RStrip(LStrip(s))

\* sep.join(parts)
RECURSIVE Join(_, _)
Join(parts, sep) ==
    IF parts = <<>> THEN ""
    ELSE IF Len(parts) = 1 THEN parts[1]
    ELSE parts[1] \o sep \o Join(Tail(parts), sep)

\* s repeated n times
RECURSIVE Rep(_, _)
Rep(s, n) == IF n <= 0 THEN "" ELSE s \o Rep(s, n - 1)

\* args.get(key, default) on a dict modelled as a function on its keys
Get(args, key, default) == IF key \in DOMAIN args THEN args[key] ELSE default

---------------------------------------------------------------------------
(* TextFileInfoProvider._build_search_query *)

\* the terms whose presence suppresses the context suffix
MarkerTerms == {"insurance", "coverage", "liability", "property"}

\* the mutant: the parts appended in the order query, section
SearchPartsQueryFirst(query, section) ==
    (IF query # "" THEN <<query>> ELSE <<>>)
        \o (IF section # "" THEN <<section>> ELSE <<>>)

\* search_parts: section first, then query, each only when truthy
SearchParts(query, section) ==
    (IF section # "" THEN <<section>> ELSE <<>>)
        \o (IF query # "" THEN <<query>> ELSE <<>>)

\* any(term in search_query.lower() for term in [...])
HasMarker(search_query) ==
    \E term \in MarkerTerms : Contains(Lower(search_query), term)

_build_search_query(query, section) ==
    LET search_parts == SearchParts(query, section)
    IN  IF search_parts # <<>>
        THEN LET search_query == Join(search_parts, " ")
             IN  IF ~HasMarker(search_query)
                 THEN search_query \o " insurance coverage"
                 ELSE search_query
        ELSE ""

---------------------------------------------------------------------------
(* TextFileInfoProvider._format_rag_results; a Document is modelled by its *)
(* page_content, the only field the formatting reads.                      *)

FormatHeader(query) ==
    "Found relevant information for '" \o query
        \o "' in excess and specialty lines documentation:\n\n"

SectionHeader(n) == "--- Section " \o ToString(n) \o " ---\n"

\* the mutant: a footer that reports the total as the number included
FormatFooterTotalOnly(included, total) ==
    "\n\n[Retrieved " \o ToString(total) \o " relevant sections from "
        \o ToString(total) \o " total matches]"

FormatFooter(included, total) ==
    "\n\n[Retrieved " \o ToString(included) \o " relevant sections from "
        \o ToString(total) \o " total matches]"

\* the mutant: the loop without the budget check, every block appended
RECURSIVE FormatLoopNoBudget(_, _, _, _, _)
FormatLoopNoBudget(results, i, combined_content, total_chars, max_chars) ==
    IF i > Len(results) THEN combined_content
    ELSE LET section_content == SectionHeader(i) \o Strip(results[i])
         IN  FormatLoopNoBudget(results, i + 1,
                 Append(combined_content, section_content),
                 total_chars + Len(section_content) + 2, max_chars)

\* the mutant: the loop that skips a block over the budget and goes on to
\* the next result instead of leaving the loop
RECURSIVE FormatLoopContinue(_, _, _, _, _)
FormatLoopContinue(results, i, combined_content, total_chars, max_chars) ==
    IF i > Len(results) THEN combined_content
    ELSE LET section_content == SectionHeader(i) \o Strip(results[i])
         IN  IF total_chars + Len(section_content) + 2 > max_chars
             THEN FormatLoopContinue(results, i + 1, combined_content,
                                     total_chars, max_chars)
             ELSE FormatLoopContinue(results, i + 1,
                      Append(combined_content, section_content),
                      total_chars + Len(section_content) + 2, max_chars)

\* the for loop from its i-th iteration (1-based) on: the blocks collected
RECURSIVE FormatLoop(_, _, _, _, _)
FormatLoop(results, i, combined_content, total_chars, max_chars) ==
    IF i > Len(results) THEN combined_content
    ELSE LET content == Strip(results[i])
             section_header == SectionHeader(i)
             section_content == section_header \o content
         IN  IF total_chars + Len(section_content) + 2 > max_chars
             THEN LET remaining_chars == max_chars - total_chars - 2
                  IN  IF remaining_chars > 100
                      THEN Append(combined_content,
                               section_header
                                   \o SliceTo(content, remaining_chars - 20)
                                   \o "...")
                      ELSE combined_content
             ELSE FormatLoop(results, i + 1,
                      Append(combined_content, section_content),
                      total_chars + Len(section_content) + 2, max_chars)

\* combined_content when the loop ends
FormatBlocks(results, query, max_chars) ==
    FormatLoop(results, 1, <<>>, Len(FormatHeader(query)), max_chars)

_format_rag_results(results, query, max_chars) ==
    IF results = <<>> THEN "No relevant information found."
    ELSE LET combined_content == FormatBlocks(results, query, max_chars)
         IN  FormatHeader(query) \o Join(combined_content, "\n\n")
                 \o (IF Len(results) > 1
                     THEN FormatFooter(Len(combined_content), Len(results))
                     ELSE "")

---------------------------------------------------------------------------
(* Values shared by the two tools. *)

\* what an invocation hands to its caller
NoResult == [kind |-> "none", type |-> "none", value |-> ""]
Returned(s) == [kind |-> "returned", type |-> "str", value |-> s]
Raised(e) == [kind |-> "raised", type |-> "exception", value |-> e]
\* a returned value that is not a str, given by its str()
ReturnedValue(type, s) == [kind |-> "returned", type |-> type, value |-> s]

\* an index: the chunks it holds and who holds it (0: the tool instance,
\* t > 0: a local variable of the invocation in slot t)
NoStore == [kind |-> "none", source |-> "", chunks |-> <<>>, owner |-> 0]
Index(source, chunks, owner) ==
    [kind |-> "index", source |-> source, chunks |-> chunks, owner |-> owner]

\* the i-th chunk the splitter makes of a file; surrounding whitespace is
\* there for the formatter's strip()
ChunkText(i) ==
    "  Part " \o ToString(i) \o ": "
        \o Rep("excess liability cover for contractors. ", 3 * i) \o "\n"

Chunks(n) == [i \in 1..n |-> ChunkText(i)]

\* the text of a file that splits into n chunks
FileContent(n) == Join(Chunks(n), "")

\* what the file system, the splitter and the index build do in one call:
\* whether the file exists, which step faults, how many chunks there are
FileEnvs ==
    [exists : BOOLEAN, fault : {"none", "read", "split", "build"}, n : 0..MaxChunks]

ReadFaultMsg == "[Errno 13] Permission denied"
BuildFaultMsg == "embedding request failed"
SearchFaultMsg == "similarity search failed"
NoneTypeMsg == "'NoneType' object has no attribute 'as_retriever'"

ProjectRoot == "/app"
DefaultPath == "data/excess_specialty_lines_info.txt"
CustomPath == "data/other_lines.txt"

\* os.path.isabs and os.path.join(project_root, file_path)
IsAbs(path) == path # "" /\ Char(path, 1) = "/"
ResolvePath(path) == IF IsAbs(path) THEN path ELSE ProjectRoot \o "/" \o path

\* _create_documents_from_content: the chunks, [] when the splitter faults
_create_documents_from_content(env) ==
    IF env.fault = "split" THEN <<>> ELSE Chunks(env.n)

\* a coroutine slot with no invocation in it
Idle ==
    [pc |-> "idle", tool |-> "none", args |-> <<>>,
     file_path |-> "", content |-> "", store |-> NoStore,
     search_query |-> <<>>, searches |-> <<>>,
     retrieval |-> "none", results |-> <<>>, imported |-> FALSE,
     client |-> "none", has_close |-> FALSE, channel |-> "none", tool_lists |-> 0,
     quote_tool |-> "", requests |-> <<>>, result |-> NoResult]

Tasks == 1..NumTasks

---------------------------------------------------------------------------
(* TextFileInfoProvider.__init__ and _initialize_vector_store *)

\* the index and the log line _initialize_vector_store ends with
_initialize_vector_store(env) ==
    IF ~env.exists THEN [store |-> NoStore, log |-> "not_found"]
    ELSE IF env.fault = "read" THEN [store |-> NoStore, log |-> "error"]
    ELSE LET documents == _create_documents_from_content(env)
         IN  IF documents # <<>>
             THEN IF env.fault = "build"
                  THEN [store |-> NoStore, log |-> "error"]
                  ELSE [store |-> Index(ResolvePath(DefaultPath), documents, 0),
                        log |-> "initialized"]
             ELSE [store |-> NoStore, log |-> "no_documents"]

\* __init__: the embeddings client is made outside any try; then the build
Construct ==
    /\ phase = "new"
    /\ \E embeddings_ok \in BOOLEAN, env \in FileEnvs :
         IF embeddings_ok
         THEN /\ phase' = "ready"
              /\ vector_store' = _initialize_vector_store(env).store
              /\ init_log' = _initialize_vector_store(env).log
         ELSE /\ phase' = "raised"
              /\ UNCHANGED <<vector_store, init_log>>
    /\ UNCHANGED <<tasks, probe>>

---------------------------------------------------------------------------
(* TextFileInfoProvider.async_invoke and _query_custom_file.  A call runs  *)
(* to its only suspension point, `await retriever.ainvoke(...)`, in one    *)
(* step and from there to its return in another.                           *)

\* file_path and file_path != "data/excess_specialty_lines_info.txt"
\* (an absent key reads None, which is as falsy as "")
IsCustomFile(args) ==
    LET file_path == Get(args, "file_path", "")
    IN  file_path # "" /\ file_path # DefaultPath

\* the mutant: the except clause of async_invoke lets the fault through
OnRagQueryErrorReraise(e) == Raised(e)

\* except Exception as e, in async_invoke
OnRagQueryError(e) == Returned("Error retrieving information: " \o e)

\* except Exception as e, in _query_custom_file
OnCustomFileError(e) == Returned("Error reading file: " \o e)

NotInitializedMsg ==
    "Error: Vector store not initialized. Please check the excess_specialty_lines_info.txt file exists."

\* the mutant: the check of self.vector_store is skipped
StoreMissingNever(store) == FALSE

\* not self.vector_store
StoreMissing(store) == store = NoStore

\* the mutant: no fallback when the built string is empty
DefaultSearchQueryNoFallback(query, section) == _build_search_query(query, section)

\* the search string of the default-document path
DefaultSearchQuery(query, section) ==
    LET search_query == _build_search_query(query, section)
    IN  IF search_query = ""
        THEN "excess specialty lines insurance coverage programs"
        ELSE search_query

\* the search string of the custom-file path
CustomSearchQuery(query, section) ==
    LET search_query == _build_search_query(query, section)
    IN  IF search_query = "" THEN "information content" ELSE search_query

\* search_kwargs={"k": ...} of the two retrievers
DefaultRetrieverK(args) == Get(args, "k", 4)
CustomRetrieverK(args) == 4

\* the mutant: zero results go through the formatter like any other
DefaultNoResultsFormatted(search_query, max_chars) ==
    _format_rag_results(<<>>, search_query, max_chars)

\* the return of async_invoke when the retriever finds nothing
DefaultNoResults(search_query, max_chars) ==
    "No relevant information found for query: '" \o search_query \o "'"

\* the return of _query_custom_file when the retriever finds nothing
CustomNoResults(file_path, content, max_chars) ==
    "Content from " \o file_path \o ":\n\n" \o SliceTo(content, max_chars)

\* the mutant: the custom index is kept as the tool's index
VectorStoreAfterCustomBuildCached(store, temp_vector_store) ==
    IF temp_vector_store = NoStore THEN store ELSE temp_vector_store

\* self.vector_store once _query_custom_file has built its own index
VectorStoreAfterCustomBuild(store, temp_vector_store) == store

\* one retriever call: the index searched, its k and the search string
Search(store, k, search_query) ==
    [owner |-> store.owner, source |-> store.source, k |-> k, query |-> search_query]

\* async_invoke on the default document, up to the await or the return
DefaultStart(t, args) ==
    LET base == [Idle EXCEPT !.tool = "retrieval", !.args = args]
        query == Get(args, "query", "")
        section == Get(args, "section", "")
    IN  IF StoreMissing(vector_store)
        THEN [base EXCEPT !.pc = "done", !.result = Returned(NotInitializedMsg)]
        ELSE LET search_query == DefaultSearchQuery(query, section)
             IN  IF vector_store = NoStore
                 \* None.as_retriever raises AttributeError inside the try
                 THEN [base EXCEPT !.pc = "done",
                                   !.search_query = <<search_query>>,
                                   !.result = OnRagQueryError(NoneTypeMsg)]
                 ELSE [base EXCEPT !.pc = "await_default",
                                   !.search_query = <<search_query>>,
                                   !.searches = <<Search(vector_store,
                                                         DefaultRetrieverK(args),
                                                         search_query)>>]

\* _query_custom_file up to the await or the return
CustomStart(t, args, env) ==
    LET file_path == ResolvePath(args.file_path)
        base == [Idle EXCEPT !.tool = "retrieval", !.args = args,
                             !.file_path = file_path]
        query == Get(args, "query", "")
        section == Get(args, "section", "")
    IN  IF ~env.exists
        THEN [base EXCEPT !.pc = "done",
                          !.result = Returned("Error: File not found at path: " \o file_path)]
        ELSE IF env.fault = "read"
        THEN [base EXCEPT !.pc = "done", !.result = OnCustomFileError(ReadFaultMsg)]
        ELSE LET content == FileContent(env.n)
                 documents == _create_documents_from_content(env)
             IN  IF documents = <<>>
                 THEN [base EXCEPT !.pc = "done", !.content = content,
                                   !.result = Returned("Error: Could not process content from "
                                                           \o file_path)]
                 ELSE IF env.fault = "build"
                 THEN [base EXCEPT !.pc = "done", !.content = content,
                                   !.result = OnCustomFileError(BuildFaultMsg)]
                 ELSE LET temp_vector_store == Index(file_path, documents, t)
                          search_query == CustomSearchQuery(query, section)
                      IN  [base EXCEPT !.pc = "await_custom", !.content = content,
                                       !.store = temp_vector_store,
                                       !.search_query = <<search_query>>,
                                       !.searches = <<Search(temp_vector_store,
                                                             CustomRetrieverK(args),
                                                             search_query)>>]

\* the argument mappings the callers pass to the retrieval tool
RetrievalArgs(file_paths, queries, sections, budgets, ks) ==
    { fp @@ q @@ s @@ m @@ k :
        fp \in {<<>>} \cup {[file_path |-> v] : v \in file_paths},
        q \in {<<>>} \cup {[query |-> v] : v \in queries},
        s \in {<<>>} \cup {[section |-> v] : v \in sections},
        m \in {<<>>} \cup {[max_chars |-> v] : v \in budgets},
        k \in {<<>>} \cup {[k |-> v] : v \in ks} }

\* async_invoke is called in slot t with one of the mappings of argset, the
\* file system and the index build behaving as one of envs
TextFileInfoProvider_async_invoke(t, argset, envs) ==
    /\ phase = "ready"
    /\ tasks[t].pc = "idle"
    /\ \E args \in argset, env \in envs :
         IF IsCustomFile(args)
         THEN LET task == CustomStart(t, args, env)
              IN  /\ tasks' = [tasks EXCEPT ![t] = task]
                  /\ vector_store' = VectorStoreAfterCustomBuild(vector_store, task.store)
         ELSE /\ tasks' = [tasks EXCEPT ![t] = DefaultStart(t, args)]
              /\ UNCHANGED vector_store
    /\ UNCHANGED <<phase, init_log, probe>>

\* what a retriever call can come back with: a fault, or the best m chunks
\* of the index, m at most k
RetrieverOutcomes(store, k) ==
    {[fault |-> TRUE, results |-> <<>>]}
        \cup {[fault |-> FALSE, results |-> SubSeq(store.chunks, 1, m)] :
                 m \in 0..Max(0, Min(k, Len(store.chunks)))}

\* async_invoke from `await retriever.ainvoke(search_query)` to its return
DefaultRetrieverReturns(t) ==
    /\ tasks[t].pc = "await_default"
    /\ LET task == tasks[t]
           search_query == task.search_query[1]
           max_chars == Get(task.args, "max_chars", 4000)
       IN  \E out \in RetrieverOutcomes(vector_store, task.searches[1].k) :
             tasks' = [tasks EXCEPT ![t] =
                 [task EXCEPT
                    !.pc = "done",
                    !.retrieval = IF out.fault THEN "fault" ELSE "results",
                    !.results = out.results,
                    !.result =
                        IF out.fault THEN OnRagQueryError(SearchFaultMsg)
                        ELSE IF out.results = <<>>
                        THEN Returned(DefaultNoResults(search_query, max_chars))
                        ELSE Returned(_format_rag_results(out.results, search_query,
                                                          max_chars))]]
    /\ UNCHANGED <<phase, vector_store, init_log, probe>>

\* _query_custom_file from `await retriever.ainvoke(search_query)` on
CustomRetrieverReturns(t) ==
    /\ tasks[t].pc = "await_custom"
    /\ LET task == tasks[t]
           search_query == task.search_query[1]
           max_chars == Get(task.args, "max_chars", 4000)
       IN  \E out \in RetrieverOutcomes(task.store, task.searches[1].k) :
             tasks' = [tasks EXCEPT ![t] =
                 [task EXCEPT
                    !.pc = "done",
                    !.retrieval = IF out.fault THEN "fault" ELSE "results",
                    !.results = out.results,
                    !.result =
                        IF out.fault THEN OnCustomFileError(SearchFaultMsg)
                        ELSE IF out.results = <<>>
                        THEN Returned(CustomNoResults(task.file_path, task.content,
                                                      max_chars))
                        ELSE Returned(_format_rag_results(out.results, search_query,
                                                          max_chars))]]
    /\ UNCHANGED <<phase, vector_store, init_log, probe>>

\* the caller takes the result; the slot is free for the next invocation
Return(t) ==
    /\ tasks[t].pc = "done"
    /\ tasks' = [tasks EXCEPT ![t] = Idle]
    /\ UNCHANGED <<phase, vector_store, init_log, probe>>

---------------------------------------------------------------------------
(* Python values of more than one type (the quote tool's arguments and the *)
(* remote tool's answer) carry their type as the record's first field.     *)

PyStrV(s) == [str |-> s]
PyIntV(n) == [int |-> n]
PyNone == [none |-> TRUE]
\* a float that is not negative: its whole part and its tenths
PyFloatV(whole, tenths) == [float |-> whole, tenths |-> tenths]
\* any other object, given by its str()
PyObjV(s) == [obj |-> s]

IsStr(v) == "str" \in DOMAIN v
IsInt(v) == "int" \in DOMAIN v
IsFloat(v) == "float" \in DOMAIN v

\* bool(v)
Truthy(v) ==
    IF IsStr(v) THEN v.str # ""
    ELSE IF IsInt(v) THEN v.int # 0
    ELSE IF IsFloat(v) THEN v.float # 0 \/ v.tenths # 0
    ELSE "obj" \in DOMAIN v

\* str(v)
PyStr(v) ==
    IF IsStr(v) THEN v.str
    ELSE IF IsInt(v) THEN ToString(v.int)
    ELSE IF IsFloat(v) THEN ToString(v.float) \o "." \o ToString(v.tenths)
    ELSE IF "obj" \in DOMAIN v THEN v.obj
    ELSE "None"

\* s.replace(c, "") for a one-character c
RECURSIVE Remove(_, _)
Remove(s, c) ==
    IF s = "" THEN ""
    ELSE (IF Char(s, 1) = c THEN "" ELSE Char(s, 1)) \o Remove(SubSeq(s, 2, Len(s)), c)

Digits == "0123456789"
IsDigit(c) == \E i \in 1..Len(Digits) : Char(Digits, i) = c
DigitValue(c) == (CHOOSE i \in 1..Len(Digits) : Char(Digits, i) = c) - 1

RECURSIVE AllDigits(_)
AllDigits(s) == s = "" \/ (IsDigit(Char(s, 1)) /\ AllDigits(SubSeq(s, 2, Len(s))))

RECURSIVE DigitsValue(_)
DigitsValue(s) ==
    IF s = "" THEN 0
    ELSE 10 * DigitsValue(SubSeq(s, 1, Len(s) - 1)) + DigitValue(Char(s, Len(s)))

Ok(n) == [ok |-> TRUE, val |-> n, err |-> ""]
Fault(e) == [ok |-> FALSE, val |-> 0, err |-> e]

\* int(s) for a str: surrounding whitespace, an optional sign, decimal digits
PyIntOfStr(s) ==
    LET body == Strip(s)
        signed == body # "" /\ Char(body, 1) \in {"+", "-"}
        digits == IF signed THEN SubSeq(body, 2, Len(body)) ELSE body
    IN  IF digits # "" /\ AllDigits(digits)
        THEN Ok(IF signed /\ Char(body, 1) = "-"
                THEN 0 - DigitsValue(digits) ELSE DigitsValue(digits))
        ELSE Fault("invalid literal for int() with base 10: '" \o s \o "'")

\* int(v)
PyInt(v) ==
    IF IsInt(v) THEN Ok(v.int)
    ELSE IF IsStr(v) THEN PyIntOfStr(v.str)
    ELSE IF IsFloat(v) THEN Ok(v.float)
    ELSE Fault("int() argument must be a string, a bytes-like object or a real number")

---------------------------------------------------------------------------
(* datetime: a moment is modelled by its date, the number of days since    *)
(* 1970-01-01, the only part of it "%Y-%m-%d" prints.                      *)

\* the proleptic Gregorian date of a day number, as <<year, month, day>>
CivilFromDays(days) ==
    LET z == days + 719468
        era == z \div 146097
        doe == z - era * 146097
        yoe == (doe - doe \div 1460 + doe \div 36524 - doe \div 146096) \div 365
        doy == doe - (365 * yoe + yoe \div 4 - yoe \div 100)
        mp == (5 * doy + 2) \div 153
        d == doy - (153 * mp + 2) \div 5 + 1
        m == IF mp < 10 THEN mp + 3 ELSE mp - 9
        y == yoe + era * 400 + (IF m <= 2 THEN 1 ELSE 0)
    IN  <<y, m, d>>

\* n printed in at least `width` digits, zero-filled
ZeroPad(n, width) == Rep("0", width - Len(ToString(n))) \o ToString(n)

\* moment.strftime("%Y-%m-%d")
StrfDate(days) ==
    LET ymd == CivilFromDays(days)
    IN  ZeroPad(ymd[1], 4) \o "-" \o ZeroPad(ymd[2], 2) \o "-" \o ZeroPad(ymd[3], 2)

\* the dates on which a call runs: 2024-02-29 and 2024-12-31
ClockDays == {19782, 20088}

\* two successive datetime.now() reads: on the same date, or with midnight
\* passing between them
ClockReads == {<<d, d>> : d \in ClockDays} \cup {<<d, d + 1>> : d \in ClockDays}

---------------------------------------------------------------------------
(* McpQuoteGenerator *)

DEFAULT_SQUARE_FOOTAGE == 10000
DEFAULT_DEDUCTIBLE == 1000
DEFAULT_POLICY_TERM_DAYS == 365
\* the default of _parse_amount's second parameter
DEFAULT_AMOUNT == 1000000
RISK_TYPE == "General Business Risk"
LOCATION_REFERENCE == "LOC-001"

_parse_amount(value, default) ==
    IF IsInt(value) THEN Ok(value.int)
    ELSE IF IsStr(value) THEN PyIntOfStr(Remove(Remove(value.str, "$"), ","))
    ELSE Ok(default)

required_params == <<"business_type", "coverage_type", "coverage_limit", "location">>

\* the mutant: only a key that is not there counts as missing
MissingParamsAbsentOnly(args) ==
    SelectSeq(required_params, LAMBDA param : param \notin DOMAIN args)

\* [param for param in required_params if not args.get(param)]
MissingParams(args) ==
    SelectSeq(required_params, LAMBDA param : ~Truthy(Get(args, param, PyNone)))

\* the crossed-out mark the messages open with stands as one character
MissingParamsMsg(missing_params) ==
    "X Error: Missing required parameters: " \o Join(missing_params, ", ")

ImportErrorMsg ==
    "X Error: MCP client not available. Please install langchain-mcp-adapters."

NoToolsMsg ==
    "X Error: Quote generation service is not available. Please ensure the MCP server is running."

ToolNotFoundMsg(tools) ==
    "X Error: Quote creation tool not found in MCP server. Available tools: "
        \o Join(tools, ", ")

\* except Exception as e
OnQuoteError(e) ==
    Returned("X Error generating quote: " \o e
                 \o "\n\nPlease ensure the MCP quote server is configured correctly.")

\* next((tool for tool in tools if "quote" in name and "create" in name), None);
\* "" stands for None
FindQuoteTool(tools) ==
    LET hits == SelectSeq(tools, LAMBDA name : Contains(Lower(name), "quote")
                                               /\ Contains(Lower(name), "create"))
    IN  IF hits = <<>> THEN "" ELSE hits[1]

\* the quote_request dict; its values are evaluated in source order, so the
\* first conversion to fault decides the error.  now1 and now2 are the two
\* datetime.now() reads.
QuoteRequest(args, now1, now2) ==
    LET square_footage == PyInt(Get(args, "square_footage", PyIntV(DEFAULT_SQUARE_FOOTAGE)))
        policy_limit == _parse_amount(Get(args, "coverage_limit", PyNone), DEFAULT_AMOUNT)
        deductible == _parse_amount(Get(args, "deductible", PyNone), DEFAULT_DEDUCTIBLE)
    IN  IF ~square_footage.ok THEN Fault(square_footage.err)
        ELSE IF ~policy_limit.ok THEN Fault(policy_limit.err)
        ELSE IF ~deductible.ok THEN Fault(deductible.err)
        ELSE [ok |-> TRUE, err |-> "",
              val |->
                [created_date |-> StrfDate(now1),
                 expiration_date |-> StrfDate(now2 + DEFAULT_POLICY_TERM_DAYS),
                 quote_status |-> "Active",
                 address |-> PyStr(Get(args, "location", PyStrV("Unknown Location"))),
                 property_type |-> PyStr(Get(args, "business_type",
                                             PyStrV("Commercial Building"))),
                 square_footage |-> square_footage.val,
                 line_type |-> PyStr(Get(args, "coverage_type",
                                         PyStrV("Property Insurance"))),
                 policy_limit |-> policy_limit.val,
                 deductible |-> deductible.val,
                 risk_type |-> RISK_TYPE,
                 location_reference |-> LOCATION_REFERENCE,
                 risk_description |->
                     PyStr(Get(args, "coverage_type", PyStrV("Property")))
                         \o " risk for "
                         \o PyStr(Get(args, "business_type", PyStrV("business")))
                         \o " operation",
                 coverage_type |-> PyStr(Get(args, "coverage_type", PyStrV("Property"))),
                 coverage_limit |-> policy_limit.val]]

\* the argument mappings the callers pass to the quote tool
QuoteArgs ==
    { b @@ c @@ l @@ a @@ s @@ d :
        b \in {<<>>} \cup {[business_type |-> v] :
                              v \in {PyStrV(""), PyStrV("Restaurant")}},
        c \in {<<>>} \cup {[coverage_type |-> v] : v \in {PyStrV("General Liability")}},
        l \in {<<>>} \cup {[coverage_limit |-> v] :
                              v \in {PyIntV(0), PyIntV(2000000), PyStrV("$2,000,000"),
                                     PyStrV("two million"), PyFloatV(2500000, 0)}},
        a \in {<<>>} \cup {[location |-> v] : v \in {PyStrV("12 Main St, Albany")}},
        s \in {<<>>} \cup {[square_footage |-> v] : v \in {PyStrV("5000"), PyStrV("large")}},
        d \in {<<>>} \cup {[deductible |-> v] :
                              v \in {PyIntV(2500), PyStrV("$1,500"), PyStrV("none"),
                                     PyNone, PyFloatV(500, 0)}} }

\* the tool names the server may list
ToolLists ==
    { <<>>, <<"create_quote">>, <<"get_quote", "list_policies">>,
      <<"list_policies", "Create-Quote">> }

ClientFaultMsg == "failed to start MCP server process"
RemoteFaultMsg == "MCP tool call failed"

\* async_invoke is called in slot t: the import, the validation and the
\* client's construction, up to `await client.get_tools()` or the return
McpQuoteGenerator_async_invoke(t) ==
    /\ tasks[t].pc = "idle"
    /\ \E args \in QuoteArgs, import_ok \in BOOLEAN, client_ok \in BOOLEAN :
         LET base == [Idle EXCEPT !.tool = "quote", !.args = args,
                                  !.imported = import_ok]
             missing_params == MissingParams(args)
         IN  tasks' = [tasks EXCEPT ![t] =
                 IF ~import_ok
                 THEN [base EXCEPT !.pc = "done", !.result = Returned(ImportErrorMsg)]
                 ELSE IF missing_params # <<>>
                 THEN [base EXCEPT !.pc = "done",
                                   !.result = Returned(MissingParamsMsg(missing_params))]
                 ELSE IF ~client_ok
                 THEN [base EXCEPT !.pc = "done", !.result = OnQuoteError(ClientFaultMsg)]
                 ELSE [base EXCEPT !.pc = "await_tools", !.client = "created",
                                   !.channel = "open", !.tool_lists = 1]]
    /\ UNCHANGED <<phase, vector_store, init_log, probe>>

\* from `await client.get_tools()` to `await quote_tool.ainvoke(...)` or the
\* return; now holds the two clock reads
GetToolsReturns(t) ==
    /\ tasks[t].pc = "await_tools"
    /\ \E fault \in BOOLEAN, tools \in ToolLists, now \in ClockReads :
         LET task == tasks[t]
             quote_tool == FindQuoteTool(tools)
             quote_request == QuoteRequest(task.args, now[1], now[2])
         IN  tasks' = [tasks EXCEPT ![t] =
                 IF fault
                 THEN [task EXCEPT !.pc = "done", !.result = OnQuoteError(RemoteFaultMsg)]
                 ELSE IF tools = <<>>
                 THEN [task EXCEPT !.pc = "done", !.result = Returned(NoToolsMsg)]
                 ELSE IF quote_tool = ""
                 THEN [task EXCEPT !.pc = "done",
                                   !.result = Returned(ToolNotFoundMsg(tools))]
                 ELSE IF ~quote_request.ok
                 THEN [task EXCEPT !.pc = "done", !.quote_tool = quote_tool,
                                   !.result = OnQuoteError(quote_request.err)]
                 ELSE [task EXCEPT !.pc = "await_quote", !.quote_tool = quote_tool,
                                   !.requests = Append(@, quote_request.val)]]
    /\ UNCHANGED <<phase, vector_store, init_log, probe>>

\* what the remote tool answers with
QuoteResults == {PyStrV("Quote Q-1001 created"), PyObjV("{'quote_id': 'Q-1001'}")}

\* from `await quote_tool.ainvoke(quote_request)` to the return
QuoteToolReturns(t) ==
    /\ tasks[t].pc = "await_quote"
    /\ \E fault \in BOOLEAN, quote_result \in QuoteResults :
         tasks' = [tasks EXCEPT ![t] =
             [tasks[t] EXCEPT
                !.pc = "done",
                !.result = IF fault THEN OnQuoteError(RemoteFaultMsg)
                           ELSE Returned(PyStr(quote_result))]]
    /\ UNCHANGED <<phase, vector_store, init_log, probe>>

---------------------------------------------------------------------------
(* test_mcp_quote_client of mcp_quote_client_example.py, the stand-alone   *)
(* client of the same server: its finally clause closes the client when    *)
(* the client has a close method.                                          *)

\* finally: if hasattr(client, 'close'): await client.close()
ExampleFinally(task) ==
    [task EXCEPT !.pc = "done",
                 !.channel = IF task.has_close THEN "closed" ELSE task.channel]

\* for tool in tools: if "quote" in tool.name.lower(): ... break
ExampleFindQuoteTool(tools) ==
    LET hits == SelectSeq(tools, LAMBDA name : Contains(Lower(name), "quote"))
    IN  IF hits = <<>> THEN "" ELSE hits[1]

\* the sample request is a literal of the script but for its two dates
ExampleRequest(now1, now2) ==
    [created_date |-> StrfDate(now1), expiration_date |-> StrfDate(now2 + 365),
     quote_status |-> "Active",
     address |-> "123 Business St, New York, NY 10001",
     property_type |-> "Restaurant", square_footage |-> 5000,
     line_type |-> "General Liability", policy_limit |-> 2000000,
     deductible |-> 1000, risk_type |-> "General Business Risk",
     location_reference |-> "LOC-001",
     risk_description |-> "General Liability risk for Restaurant operation",
     coverage_type |-> "General Liability", coverage_limit |-> 2000000]

\* the client is made, outside the try, and get_tools awaited
ExampleClientStart(t) ==
    /\ tasks[t].pc = "idle"
    /\ \E client_ok \in BOOLEAN, has_close \in BOOLEAN :
         LET base == [Idle EXCEPT !.tool = "example", !.imported = TRUE]
         IN  tasks' = [tasks EXCEPT ![t] =
                 IF ~client_ok
                 THEN [base EXCEPT !.pc = "done", !.result = Raised(ClientFaultMsg)]
                 ELSE [base EXCEPT !.pc = "example_await_tools", !.client = "created",
                                   !.has_close = has_close,
                                   !.channel = "open", !.tool_lists = 1]]
    /\ UNCHANGED <<phase, vector_store, init_log, probe>>

\* from `await client.get_tools()` to `await quote_tool.ainvoke(...)` or,
\* through the finally clause, to the return
ExampleGetToolsReturns(t) ==
    /\ tasks[t].pc = "example_await_tools"
    /\ \E fault \in BOOLEAN, tools \in ToolLists, now \in ClockReads :
         LET task == tasks[t]
             quote_tool == ExampleFindQuoteTool(tools)
         IN  tasks' = [tasks EXCEPT ![t] =
                 IF fault \/ tools = <<>> \/ quote_tool = ""
                 THEN ExampleFinally([task EXCEPT !.result = ReturnedValue("NoneType", "None")])
                 ELSE [task EXCEPT !.pc = "example_await_quote", !.quote_tool = quote_tool,
                                   !.requests = Append(@, ExampleRequest(now[1], now[2]))]]
    /\ UNCHANGED <<phase, vector_store, init_log, probe>>

\* from `await quote_tool.ainvoke(sample_request)` through the finally
\* clause to the return
ExampleQuoteToolReturns(t) ==
    /\ tasks[t].pc = "example_await_quote"
    /\ \E fault \in BOOLEAN, quote_result \in QuoteResults :
         tasks' = [tasks EXCEPT ![t] =
             ExampleFinally([tasks[t] EXCEPT
                !.result = IF fault THEN ReturnedValue("NoneType", "None")
                           ELSE IF IsStr(quote_result) THEN Returned(quote_result.str)
                           ELSE ReturnedValue("object", PyStr(quote_result))])]
    /\ UNCHANGED <<phase, vector_store, init_log, probe>>

---------------------------------------------------------------------------
(* The tools in use: one instance of each, invocations one after another.  *)

NoProbe == [fn |-> "none"]

Init ==
    /\ phase = "new"
    /\ vector_store = NoStore
    /\ init_log = "none"
    /\ tasks = [t \in Tasks |-> Idle]
    /\ probe = NoProbe

\* the argument mappings of the sequential specification
SeqRetrievalArgs ==
    RetrievalArgs({DefaultPath, CustomPath},
                  {"", " ", "fire", "General Liability limits"},
                  {"", "  ", "coverages"},
                  {50, 150, 300},
                  {1, 2})

Next ==
    \/ Construct
    \/ TextFileInfoProvider_async_invoke(1, SeqRetrievalArgs, FileEnvs)
    \/ DefaultRetrieverReturns(1)
    \/ CustomRetrieverReturns(1)
    \/ McpQuoteGenerator_async_invoke(1)
    \/ GetToolsReturns(1)
    \/ QuoteToolReturns(1)
    \/ ExampleClientStart(1)
    \/ ExampleGetToolsReturns(1)
    \/ ExampleQuoteToolReturns(1)
    \/ Return(1)

Spec == Init /\ [][Next]_vars

---------------------------------------------------------------------------
(* The retrieval tool under concurrent invocations: NumTasks coroutines,   *)
(* interleaved at their suspension points.                                 *)

\* the calls of the interleaving specification: the default document or a
\* custom file that is there and splits into one chunk, with or without a
\* fault of the index build
ConcRetrievalArgs == RetrievalArgs({CustomPath}, {"fire"}, {}, {}, {})
ConcFileEnvs == [exists : {TRUE}, fault : {"none", "build"}, n : {1}]

NextConc ==
    \/ Construct
    \/ \E t \in Tasks : TextFileInfoProvider_async_invoke(t, ConcRetrievalArgs, ConcFileEnvs)
    \/ \E t \in Tasks : DefaultRetrieverReturns(t)
    \/ \E t \in Tasks : CustomRetrieverReturns(t)
    \/ \E t \in Tasks : Return(t)

SpecConc == Init /\ [][NextConc]_vars

---------------------------------------------------------------------------
(* _build_search_query applied on its own. *)

ProbeQueries ==
    {"", " ", "fire", "general liability coverage", "Flood INSURANCE",
     "Property damage", "cover age", "umbrella limits"}

ProbeSections ==
    {"", "  ", "coverages", "programs", "Specialty Lines", "LIABILITY", "exclusions"}

InitQuery ==
    /\ phase = "new"
    /\ vector_store = NoStore
    /\ init_log = "none"
    /\ tasks = [t \in Tasks |-> Idle]
    /\ probe \in [fn : {"_build_search_query"}, query : ProbeQueries,
                  section : ProbeSections, out : {<<>>}]

BuildSearchQueryStep ==
    /\ probe.fn = "_build_search_query"
    /\ probe.out = <<>>
    /\ probe' = [probe EXCEPT !.out = <<_build_search_query(probe.query, probe.section)>>]
    /\ UNCHANGED <<phase, vector_store, init_log, tasks>>

SpecQuery == InitQuery /\ [][BuildSearchQueryStep]_vars

---------------------------------------------------------------------------
(* _format_rag_results applied on its own. *)

\* page_content of the documents handed in: short, medium and long
ProbeDocs ==
    {"  Fire cover applies.\n", ChunkText(1), Rep("surplus lines wording; ", 30)}

RECURSIVE SeqsUpTo(_, _)
SeqsUpTo(S, n) ==
    IF n = 0 THEN {<<>>}
    ELSE SeqsUpTo(S, n - 1)
             \cup {Append(r, d) : r \in {x \in SeqsUpTo(S, n - 1) : Len(x) = n - 1}, d \in S}

ProbeBudgets == {50, 100, 150, 230, 300, 700, 4000}

InitFormat ==
    /\ phase = "new"
    /\ vector_store = NoStore
    /\ init_log = "none"
    /\ tasks = [t \in Tasks |-> Idle]
    /\ probe \in [fn : {"_format_rag_results"}, results : SeqsUpTo(ProbeDocs, MaxResults),
                  query : {"fire insurance coverage", "x"}, max_chars : ProbeBudgets,
                  out : {<<>>}]

FormatStep ==
    /\ probe.fn = "_format_rag_results"
    /\ probe.out = <<>>
    /\ probe' = [probe EXCEPT
                    !.out = <<_format_rag_results(probe.results, probe.query,
                                                  probe.max_chars)>>]
    /\ UNCHANGED <<phase, vector_store, init_log, tasks>>

SpecFormat == InitFormat /\ [][FormatStep]_vars

---------------------------------------------------------------------------
(* The claims. *)

Retrieval(t) == tasks[t].tool = "retrieval"
Quote(t) == tasks[t].tool = "quote"
OnDefaultPath(t) == Retrieval(t) /\ ~IsCustomFile(tasks[t].args)
OnCustomPath(t) == Retrieval(t) /\ IsCustomFile(tasks[t].args)

\* C1: no fault crosses the tool-entry boundary.  In every state, no
\* invocation of either tool has raised; every finished invocation holds a
\* returned str; and an invocation waiting on a collaborator can always take
\* the step that finishes it or moves it on.
C1_NoFaultCrossesBoundary ==
    \A t \in Tasks :
        (Retrieval(t) \/ Quote(t)) =>
        /\ tasks[t].result.kind # "raised"
        /\ tasks[t].pc = "done" =>
               tasks[t].result.kind = "returned" /\ tasks[t].result.type = "str"
        /\ tasks[t].pc = "await_default" => ENABLED DefaultRetrieverReturns(t)
        /\ tasks[t].pc = "await_custom" => ENABLED CustomRetrieverReturns(t)
        /\ tasks[t].pc = "await_tools" => ENABLED GetToolsReturns(t)
        /\ tasks[t].pc = "await_quote" => ENABLED QuoteToolReturns(t)

\* C1's case: a default-document call whose retriever faulted has returned
\* the error string.
C1_Witness ==
    \E t \in Tasks :
        /\ OnDefaultPath(t)
        /\ tasks[t].pc = "done"
        /\ tasks[t].retrieval = "fault"
        /\ tasks[t].result = Returned("Error retrieving information: " \o SearchFaultMsg)

\* C2: once construction is over the default index never changes, whatever
\* calls run and however they interleave; and every index a custom-file call
\* builds is that call's own: it is not the default index, the call searches
\* only it, and no other call searches it.
C2_DefaultIndexFrozen ==
    /\ [][phase = "ready" => vector_store' = vector_store]_vars
    /\ [](\A t \in Tasks :
            /\ OnCustomPath(t) /\ tasks[t].store # NoStore =>
                   /\ tasks[t].store.owner = t
                   /\ tasks[t].store # vector_store
                   /\ vector_store.owner = 0
            /\ \A i \in 1..Len(tasks[t].searches) :
                   tasks[t].searches[i].owner = (IF OnCustomPath(t) THEN t ELSE 0))

\* C2's case: a default-document call and a custom-file call are suspended
\* at their retriever at the same time, the default index built.
C2_Witness ==
    /\ vector_store # NoStore
    /\ \E t, u \in Tasks :
         /\ tasks[t].pc = "await_default"
         /\ tasks[u].pc = "await_custom"
         /\ tasks[u].store.owner = u

\* C3: for a non-empty result list and max_chars >= 100 the formatted text
\* is no longer than max_chars plus the header line plus the footer line;
\* and with max_chars = 50 no section block is rendered.
C3_FormatLengthBound ==
    (probe.fn = "_format_rag_results" /\ probe.out # <<>> /\ probe.results # <<>>) =>
        /\ probe.max_chars >= 100 =>
               Len(probe.out[1]) <=
                   probe.max_chars + Len(FormatHeader(probe.query))
                       + (IF Len(probe.results) > 1
                          THEN Len(FormatFooter(Len(probe.results), Len(probe.results)))
                          ELSE 0)
        /\ probe.max_chars = 50 => ~Contains(probe.out[1], "--- Section ")

\* C3's case: two results, a budget of at least 100 that the second block
\* overruns, so that it is cut and the text ends with the footer.
C3_Witness ==
    /\ probe.fn = "_format_rag_results"
    /\ probe.out # <<>>
    /\ Len(probe.results) = 2
    /\ probe.max_chars >= 100
    /\ Contains(probe.out[1], "--- Section 2 ---")
    /\ Contains(probe.out[1], "...\n\n[Retrieved 2 relevant sections from 2 total matches]")
    /\ Len(probe.out[1]) > probe.max_chars

\* C4 as claimed: every retriever call is made with the k of the arguments
\* (4 when absent), on the default index and on a custom file's index.
C4_RequestedKUsed ==
    \A t \in Tasks :
        Retrieval(t) =>
            \A i \in 1..Len(tasks[t].searches) :
                tasks[t].searches[i].k = Get(tasks[t].args, "k", 4)

\* C5 as claimed: query and section both empty after trimming give the
\* search string "excess specialty lines insurance coverage programs" on
\* either path.
C5_TrimmedEmptyGivesDefault ==
    \A t \in Tasks :
        (/\ Retrieval(t)
         /\ tasks[t].search_query # <<>>
         /\ Strip(Get(tasks[t].args, "query", "")) = ""
         /\ Strip(Get(tasks[t].args, "section", "")) = "") =>
            tasks[t].search_query[1] = "excess specialty lines insurance coverage programs"

\* C5 as amended: query and section both empty (as given: nothing is
\* trimmed) give "excess specialty lines insurance coverage programs" on the
\* default-document path and "information content" on the custom-file path.
C5_EmptyGivesPathDefault ==
    \A t \in Tasks :
        (/\ Retrieval(t)
         /\ tasks[t].search_query # <<>>
         /\ Get(tasks[t].args, "query", "") = ""
         /\ Get(tasks[t].args, "section", "") = "") =>
            tasks[t].search_query[1] =
                (IF OnCustomPath(t) THEN "information content"
                 ELSE "excess specialty lines insurance coverage programs")

\* C5's case: a default-document call with neither query nor section has
\* called the retriever.
C5_Witness ==
    \E t \in Tasks :
        /\ OnDefaultPath(t)
        /\ tasks[t].pc = "await_default"
        /\ Get(tasks[t].args, "query", "") = ""
        /\ Get(tasks[t].args, "section", "") = ""
        /\ tasks[t].searches[1].query = "excess specialty lines insurance coverage programs"

\* the rule of C6: the non-empty ones of section and query, in that order,
\* joined by one space, then " insurance coverage" unless a marker term is
\* in the joined string in any letter case
C6_Expected(query, section) ==
    LET joined == IF section = "" THEN query
                  ELSE IF query = "" THEN section
                  ELSE section \o " " \o query
        marked == \E term \in {"insurance", "coverage", "liability", "property"} :
                      Contains(Lower(joined), term)
    IN  IF marked THEN joined ELSE joined \o " insurance coverage"

C6_ProbeDone ==
    /\ probe.fn = "_build_search_query"
    /\ probe.out # <<>>
    /\ ~(probe.query = "" /\ probe.section = "")

\* C6 as claimed: for query and section not both empty, the built string is
\* the non-empty ones joined by one space, section first, followed by
\* " insurance coverage" exactly when the joined string holds none of
\* insurance, coverage, liability, property in any letter case; so that
\* ("fire", "coverages") gives "coverages fire insurance coverage" and
\* ("general liability coverage", "") gives "general liability coverage".
C6_AsClaimed ==
    C6_ProbeDone =>
        /\ probe.out[1] = C6_Expected(probe.query, probe.section)
        /\ (probe.query = "fire" /\ probe.section = "coverages") =>
               probe.out[1] = "coverages fire insurance coverage"
        /\ (probe.query = "general liability coverage" /\ probe.section = "") =>
               probe.out[1] = "general liability coverage"

\* C6 as amended: the same rule, with the examples it gives:
\* ("fire", "coverages") gives "coverages fire", since "coverages" holds the
\* marker "coverage"; ("fire", "programs") gives
\* "programs fire insurance coverage"; ("general liability coverage", "")
\* gives "general liability coverage".
C6_BuildSearchQuery ==
    C6_ProbeDone =>
        /\ probe.out[1] = C6_Expected(probe.query, probe.section)
        /\ (probe.query = "fire" /\ probe.section = "coverages") =>
               probe.out[1] = "coverages fire"
        /\ (probe.query = "fire" /\ probe.section = "programs") =>
               probe.out[1] = "programs fire insurance coverage"
        /\ (probe.query = "general liability coverage" /\ probe.section = "") =>
               probe.out[1] = "general liability coverage"

\* C6's case: the builder has run on ("fire", "coverages").
C6_Witness ==
    /\ probe.fn = "_build_search_query"
    /\ probe.query = "fire"
    /\ probe.section = "coverages"
    /\ probe.out = <<"coverages fire">>

NoInfoSentence(search_query) ==
    "No relevant information found for query: '" \o search_query \o "'"

FoundNothing(t) ==
    /\ Retrieval(t)
    /\ tasks[t].pc = "done"
    /\ tasks[t].retrieval = "results"
    /\ tasks[t].results = <<>>

\* C7 as claimed: a call whose retrieval yields zero results returns the one
\* sentence "No relevant information found ..." naming the query, whatever
\* max_chars is, on either path; and so does the formatter given no results.
C7_ZeroResultsSentence ==
    \A t \in Tasks :
        FoundNothing(t) =>
            /\ tasks[t].result = Returned(NoInfoSentence(tasks[t].search_query[1]))
            /\ _format_rag_results(<<>>, tasks[t].search_query[1],
                                   Get(tasks[t].args, "max_chars", 4000))
                   = NoInfoSentence(tasks[t].search_query[1])

\* C7 as amended: on the default-document path zero results return the
\* sentence "No relevant information found for query: '<search string>'",
\* whatever max_chars is; the formatter given no results returns the fixed
\* sentence "No relevant information found.", which names no query, whatever
\* max_chars is; on the custom-file path zero results return
\* "Content from <path>:", a blank line and the first max_chars characters
\* of the file.
C7_ZeroResultsByPath ==
    \A t \in Tasks :
        FoundNothing(t) =>
            /\ OnDefaultPath(t) =>
                   tasks[t].result = Returned(NoInfoSentence(tasks[t].search_query[1]))
            /\ OnCustomPath(t) =>
                   tasks[t].result =
                       Returned("Content from " \o tasks[t].file_path \o ":\n\n"
                                    \o SliceTo(tasks[t].content,
                                               Get(tasks[t].args, "max_chars", 4000)))
            /\ _format_rag_results(<<>>, tasks[t].search_query[1],
                                   Get(tasks[t].args, "max_chars", 4000))
                   = "No relevant information found."

\* C7's case: a default-document call with a budget of 50 found nothing.
C7_Witness ==
    \E t \in Tasks :
        /\ FoundNothing(t)
        /\ OnDefaultPath(t)
        /\ Get(tasks[t].args, "max_chars", 4000) = 50
        /\ tasks[t].result.value = "No relevant information found for query: 'fire insurance coverage'"

\* C8: construction raises only where the embeddings client is made, never
\* in the index build, which leaves the index unset when the file is absent,
\* no chunk is made or a step faults; and with the index unset every call on
\* the default document returns the initialization error at once, having
\* built no search string and called no retriever.
C8_UninitializedIndex ==
    /\ phase = "raised" => init_log = "none"
    /\ init_log \in {"not_found", "no_documents", "error"} =>
           phase = "ready" /\ vector_store = NoStore
    /\ \A t \in Tasks :
           (OnDefaultPath(t) /\ vector_store = NoStore) =>
               /\ tasks[t].pc = "done"
               /\ tasks[t].result = Returned(NotInitializedMsg)
               /\ tasks[t].search_query = <<>>
               /\ tasks[t].searches = <<>>
               /\ tasks[t].retrieval = "none"

\* C8's case: the default file was absent at construction and a call naming
\* the default path has returned.
C8_Witness ==
    /\ phase = "ready"
    /\ init_log = "not_found"
    /\ \E t \in Tasks :
         /\ OnDefaultPath(t)
         /\ Get(tasks[t].args, "file_path", "") = DefaultPath
         /\ tasks[t].pc = "done"
         /\ tasks[t].result.value = NotInitializedMsg

NoExternalCall(t) ==
    /\ tasks[t].pc = "done"
    /\ tasks[t].client = "none"
    /\ tasks[t].channel = "none"
    /\ tasks[t].tool_lists = 0
    /\ tasks[t].requests = <<>>

\* C9 as claimed: a quote call with any of the four required fields absent
\* returns the error listing exactly the absent fields, before any external
\* call.  It is stated of the calls whose import of the client library
\* succeeded, the ones that reach the validation.
C9_AbsentFieldsListed ==
    \A t \in Tasks :
        LET absent == SelectSeq(required_params,
                                LAMBDA param : param \notin DOMAIN tasks[t].args)
        IN  (Quote(t) /\ tasks[t].imported /\ absent # <<>>) =>
                /\ tasks[t].result =
                       Returned("X Error: Missing required parameters: "
                                    \o Join(absent, ", "))
                /\ NoExternalCall(t)

\* C9 as amended: when the MCP client library imports, a quote call with
\* any of the four required fields absent or falsy (None, "", 0) returns the
\* error listing exactly the absent or falsy fields, in the order
\* business_type, coverage_type, coverage_limit, location, before any
\* external call; when the import fails the call returns the
\* client-not-available error, likewise before any external call.
C9_MissingFieldsListed ==
    \A t \in Tasks :
        LET missing == SelectSeq(required_params,
                                 LAMBDA param : \/ param \notin DOMAIN tasks[t].args
                                                \/ ~Truthy(tasks[t].args[param]))
        IN  (Quote(t) /\ missing # <<>>) =>
                /\ tasks[t].result =
                       (IF tasks[t].imported
                        THEN Returned("X Error: Missing required parameters: "
                                          \o Join(missing, ", "))
                        ELSE Returned(ImportErrorMsg))
                /\ NoExternalCall(t)

\* C9's case: business_type is absent and coverage_limit is 0; both are
\* listed.
C9_Witness ==
    \E t \in Tasks :
        /\ Quote(t)
        /\ tasks[t].imported
        /\ "business_type" \notin DOMAIN tasks[t].args
        /\ "coverage_limit" \in DOMAIN tasks[t].args
        /\ tasks[t].args.coverage_limit = PyIntV(0)
        /\ tasks[t].result.value
               = "X Error: Missing required parameters: business_type, coverage_limit"

\* C10 as claimed: a quote call that opened an RPC channel sends at most one
\* quote request and has torn the channel down when it returns, on the
\* success path and on every error path.  (The example client's finally
\* clause does close its client; async_invoke has no such step.)
C10_OneRequestThenTeardown ==
    \A t \in Tasks :
        (Quote(t) /\ tasks[t].channel # "none") =>
            /\ Len(tasks[t].requests) <= 1
            /\ tasks[t].tool_lists <= 1
            /\ tasks[t].pc = "done" => tasks[t].channel = "closed"

\* a monetary argument that was given a value
Supplied(args, field) == field \in DOMAIN args /\ args[field] # PyNone

\* the amount a supplied value stands for, when it stands for one: an int
\* itself; a str the integer it spells once every "$" and "," is removed
AmountSpelled(v) ==
    IF IsInt(v) THEN <<v.int>>
    ELSE IF IsStr(v)
    THEN LET digits == Remove(Remove(v.str, "$"), ",")
         IN  IF digits # "" /\ AllDigits(digits) THEN <<DigitsValue(digits)>> ELSE <<>>
    ELSE <<>>

\* what the request sent carries for a monetary argument
AmountSent(request, field) ==
    IF field = "coverage_limit" THEN {request.policy_limit, request.coverage_limit}
    ELSE {request.deductible}

\* C11 as claimed: of coverage_limit and deductible, an int goes into the
\* request unchanged, a str as the integer left once "$" and "," are removed
\* ("$2,000,000" as 2000000), and a supplied value that spells no integer
\* makes the call return an error string: no request carries a default in
\* its place.
C11_AmountsParsedOrRefused ==
    \A t \in Tasks :
        \A field \in {"coverage_limit", "deductible"} :
            (/\ Quote(t)
             /\ Supplied(tasks[t].args, field)
             /\ tasks[t].pc \in {"await_quote", "done"}
             /\ tasks[t].requests # <<>> \/ tasks[t].quote_tool # "") =>
                LET spelled == AmountSpelled(tasks[t].args[field])
                IN  IF spelled = <<>>
                    THEN /\ tasks[t].requests = <<>>
                         /\ tasks[t].pc = "done"
                         /\ Contains(tasks[t].result.value, "Error")
                    ELSE \A i \in 1..Len(tasks[t].requests) :
                             AmountSent(tasks[t].requests[i], field) = {spelled[1]}

FormatProbeDone == probe.fn = "_format_rag_results" /\ probe.out # <<>>

StartsWith(s, prefix) == Len(prefix) <= Len(s) /\ SubSeq(s, 1, Len(prefix)) = prefix
EndsWith(s, suffix) ==
    Len(suffix) <= Len(s) /\ SubSeq(s, Len(s) - Len(suffix) + 1, Len(s)) = suffix

\* the places of s at which t begins
Occurrences(s, t) ==
    {i \in 1..(Len(s) - Len(t) + 1) : SubSeq(s, i, i + Len(t) - 1) = t}

\* the whole block of the i-th ranked result
WholeBlock(results, i) == SectionHeader(i) \o Strip(results[i])

\* the running total once the first n results are rendered whole
RECURSIVE RunningTotal(_, _, _)
RunningTotal(results, query, n) ==
    IF n = 0 THEN Len(FormatHeader(query))
    ELSE RunningTotal(results, query, n - 1) + Len(WholeBlock(results, n)) + 2

\* how many results are rendered whole: those before the first one whose
\* block takes the running total above max_chars
WholeCount(results, query, max_chars) ==
    Cardinality({n \in 1..Len(results) : RunningTotal(results, query, n) <= max_chars})

\* the blocks the claim describes: the whole ones in rank order, then, if a
\* result stopped the loop and more than 100 characters remained, that
\* result cut to the remaining budget less 20, with "..."
BlocksClaimed(results, query, max_chars) ==
    LET n == WholeCount(results, query, max_chars)
        whole == [i \in 1..n |-> WholeBlock(results, i)]
        remaining == max_chars - RunningTotal(results, query, n) - 2
    IN  IF n < Len(results) /\ remaining > 100
        THEN Append(whole, SectionHeader(n + 1)
                               \o SubSeq(Strip(results[n + 1]), 1, remaining - 20)
                               \o "...")
        ELSE whole

\* C12: the text returned for a non-empty result list is the header followed
\* by the blocks of a prefix of the results, numbered 1..n in rank order and
\* joined by blank lines: every result before the first one that would take
\* running_total + block_length + 2 above max_chars is rendered whole; that
\* one is rendered cut to remaining budget - 20 characters plus "..." if the
\* remaining budget exceeds 100 and not at all otherwise; no later result is
\* rendered, so only the last block can be a cut one.
C12_BlocksArePrefix ==
    (FormatProbeDone /\ probe.results # <<>>) =>
        LET blocks == BlocksClaimed(probe.results, probe.query, probe.max_chars)
            body == FormatHeader(probe.query) \o Join(blocks, "\n\n")
        IN  /\ StartsWith(probe.out[1], body)
            /\ Cardinality(Occurrences(probe.out[1], "--- Section ")) = Len(blocks)
            /\ \/ probe.out[1] = body
               \/ StartsWith(SubSeq(probe.out[1], Len(body) + 1, Len(probe.out[1])),
                             "\n\n[Retrieved ")

\* C12's case: the first of two results stops the loop and is rendered cut,
\* and the second, whose block would have fitted the budget after the
\* header, is not rendered.
C12_Witness ==
    /\ FormatProbeDone
    /\ Len(probe.results) = 2
    /\ WholeCount(probe.results, probe.query, probe.max_chars) = 0
    /\ Len(FormatHeader(probe.query)) + Len(WholeBlock(probe.results, 2)) + 2
           <= probe.max_chars
    /\ Contains(probe.out[1], "--- Section 1 ---\n")
    /\ Contains(probe.out[1], "...\n\n[Retrieved ")
    /\ ~Contains(probe.out[1], "--- Section 2 ---\n")

\* the footer line as the claim describes it
FooterClaimed(included, total) ==
    "\n\n[Retrieved " \o ToString(included) \o " relevant sections from "
        \o ToString(total) \o " total matches]"

\* C13: the text returned ends with a footer line exactly when more than one
\* result was retrieved; the footer gives the number of section blocks in
\* the text (a cut block counts) and the number of results retrieved, and
\* the first number is never greater than the second.
C13_FooterCounts ==
    FormatProbeDone =>
        LET included == Cardinality(Occurrences(probe.out[1], "--- Section "))
            total == Len(probe.results)
        IN  /\ included <= total
            /\ total > 1 => EndsWith(probe.out[1], FooterClaimed(included, total))
            /\ total <= 1 => Occurrences(probe.out[1], "[Retrieved ") = {}
            /\ Cardinality(Occurrences(probe.out[1], "[Retrieved ")) <= 1

\* C13's case: two results retrieved of which only the first is in the text,
\* so that the footer's two numbers differ.
C13_Witness ==
    /\ FormatProbeDone
    /\ Len(probe.results) = 2
    /\ Cardinality(Occurrences(probe.out[1], "--- Section ")) = 1
    /\ EndsWith(probe.out[1], FooterClaimed(1, 2))

\* the day number of a proleptic Gregorian date
DaysFromCivil(year, month, day) ==
    LET y == IF month <= 2 THEN year - 1 ELSE year
        era == y \div 400
        yoe == y - era * 400
        mp == IF month > 2 THEN month - 3 ELSE month + 9
        doy == (153 * mp + 2) \div 5 + day - 1
        doe == yoe * 365 + yoe \div 4 - yoe \div 100 + doy
    IN  era * 146097 + doe - 719468

\* the day number an ISO 8601 date "YYYY-MM-DD" names
DayOfIsoDate(text) ==
    DaysFromCivil(DigitsValue(SubSeq(text, 1, 4)), DigitsValue(SubSeq(text, 6, 7)),
                  DigitsValue(SubSeq(text, 9, 10)))

IsIsoDate(text) ==
    /\ Len(text) = 10
    /\ Char(text, 5) = "-" /\ Char(text, 8) = "-"
    /\ AllDigits(SubSeq(text, 1, 4) \o SubSeq(text, 6, 7) \o SubSeq(text, 9, 10))

\* C14 as claimed: in every payload the quote tool sends, created_date and
\* expiration_date are ISO 8601 dates exactly 365 days apart, whenever the
\* call runs, a call during which midnight passes between the two clock
\* reads included.
C14_TermIs365Days ==
    \A t \in Tasks :
        Quote(t) =>
            \A i \in 1..Len(tasks[t].requests) :
                LET request == tasks[t].requests[i]
                IN  /\ IsIsoDate(request.created_date)
                    /\ IsIsoDate(request.expiration_date)
                    /\ DayOfIsoDate(request.expiration_date)
                           - DayOfIsoDate(request.created_date)
                       = DEFAULT_POLICY_TERM_DAYS

=============================================================================
